---- MODULE Spec2Model ----
(***************************************************************************)
(* Email-to-task pipeline of AI-Agents-Swarm: EmailAgent (fetch, filter,   *)
(* classify), NotionAgent (similarity check, create, batch commit) and     *)
(* AgentOrchestrator (pipeline run, commit gate, processed bookkeeping).   *)
(*                                                                         *)
(* A run is a coroutine.  Runs started through the API share the server's  *)
(* event loop and interleave only at their await points; a scheduled run   *)
(* and every IDLE-triggered run has an event loop of its own (asyncio.run) *)
(* on its own thread and interleaves freely with the others.               *)
(***************************************************************************)
EXTENDS Integers, Sequences, FiniteSets, TLC

\* ---------------------------------------------------------------- bounds
MaxMsgs == 3
MaxRuns == 2
\* email_limit of a scheduled or manual run (50 in the program) and of a
\* push-triggered run (10), scaled to the inbox of the model.
DefaultLimit == 2
FastLimit == 1
\* The monitor threads the IDLE processor may create.
MaxThreads == 3

\* ------------------------------------------------------ program constants
\* Confidences are in hundredths: 80 is the 0.8 of the acceptance test.
ConfidenceThreshold == 80
SimilarityThreshold == 85
PageSize == 20

None == 0
NoId == 0

Msgs == 1..MaxMsgs
Runs == 1..MaxRuns

\* ------------------------------------------------------------ the inbox
\* Message m of the inbox, as _parse_email normalizes it.  The Message-ID
\* header of message 2 is missing, so its identifier is the empty text.
MessageId(m) == IF m = 2 THEN NoId ELSE m

\* A text is known by the phrases its lower-cased form contains: the sender,
\* subject and content of message m.  Message 3 is an invoice notice sent by
\* billing@service.com; the others are written by a person.
Sender(m) == IF m = 3 THEN {"billing@", "service.com"} ELSE {"alice@", "corp.com"}

Subject(m) ==
    IF m = 3 THEN {"your", "invoice", "is ready"}
    ELSE {"can you", "update", "the deck", "monday"}

Content(m) == IF m = 3 THEN {"attached", "invoice"} ELSE {"please", "thanks"}

automated_senders ==
    {"noreply@", "no-reply@", "donotreply@", "do-not-reply@",
     "security@", "alerts@", "notifications@", "system@",
     "admin@", "support@", "help@", "info@", "news@",
     "updates@", "marketing@", "promo@", "newsletter@",
     "accounts@", "billing@", "payments@", "services@"}

automated_subjects ==
    {"security alert", "security warning", "account alert",
     "password reset", "login attempt", "suspicious activity",
     "verify your account", "confirmation required", "activate your",
     "welcome to", "thank you for", "subscription", "newsletter",
     "unsubscribe", "promotion", "offer", "deal", "sale",
     "invoice", "receipt", "payment", "billing", "statement",
     "notification", "reminder", "alert", "update available",
     "system maintenance", "service update", "terms of service"}

automated_content ==
    {"this is an automated message", "do not reply to this email",
     "this email was sent automatically", "unsubscribe",
     "click here to verify", "activate your account",
     "for security reasons", "suspicious activity detected",
     "please verify your identity", "account security"}

\* any(indicator in text for indicator in list), for the three lists.
_is_automated_email(m) ==
    \/ \E indicator \in automated_senders : indicator \in Sender(m)
    \/ \E indicator \in automated_subjects : indicator \in Subject(m)
    \/ \E indicator \in automated_content : indicator \in Content(m)

\* ------------------------------------------------- classification verdicts
\* Texts are sequences of characters.  The model phrases a task in one of
\* two ways, which are not similar to each other.
Texts ==
    { [title |-> <<1, 2, 3>>, description |-> <<7, 8>>],
      [title |-> <<5, 6>>, description |-> << >>] }

Confidences == {79, 80}

Verdicts ==
    { [is_task |-> b, confidence |-> c, title |-> t.title,
       description |-> t.description] :
        b \in BOOLEAN, c \in Confidences, t \in Texts }

\* ------------------------------------------------------------ similarity
RECURSIVE LCS(_, _)
LCS(s, t) ==
    IF s = << >> \/ t = << >> THEN 0
    ELSE IF Head(s) = Head(t) THEN 1 + LCS(Tail(s), Tail(t))
    ELSE LET a == LCS(Tail(s), t)
             b == LCS(s, Tail(t))
         IN IF a >= b THEN a ELSE b

\* fuzz.ratio: 0 for an empty argument, else round(100 * 2M / T).
fuzz_ratio(s, t) ==
    IF s = << >> \/ t = << >> THEN 0
    ELSE (2 * 200 * LCS(s, t) + (Len(s) + Len(t))) \div (2 * (Len(s) + Len(t)))

Max(a, b) == IF a >= b THEN a ELSE b

\* The most recent PageSize records of the store, the answer to the query.
RecentRecords(st) ==
    {st[i] : i \in {j \in 1..Len(st) : j > Len(st) - PageSize}}

\* str.lower: a character above 100 is the capital of the one 100 below it.
lower(s) == [i \in 1..Len(s) |-> IF s[i] > 100 THEN s[i] - 100 ELSE s[i]]

\* One turn of the loop of _task_exists: a record without a title is passed
\* over; the description counts when the task has one.
Similar(task, existing) ==
    /\ existing.title # << >>
    /\ LET title_similarity == fuzz_ratio(lower(task.title), lower(existing.title))
           description_similarity ==
               IF task.description # << >>
               THEN fuzz_ratio(lower(task.description), lower(existing.description))
               ELSE 0
       IN Max(title_similarity, description_similarity) >= SimilarityThreshold

\* A check that answers 'duplicate' when its query raised.
_task_exists_fail_closed(task, st, query_ok) ==
    \/ ~query_ok
    \/ \E existing \in RecentRecords(st) : Similar(task, existing)

\* query_ok = FALSE: the query raised; the check answers 'no duplicate'.
_task_exists(task, st, query_ok) ==
    /\ query_ok
    /\ \E existing \in RecentRecords(st) : Similar(task, existing)

VARIABLES
    inboxLen,          \* messages 1..inboxLen have arrived; the newest is the highest
    processed_emails,  \* EmailAgent.processed_emails
    disk,              \* data/processed_emails.pkl
    store,             \* the records of the destination database, oldest first
    processing_lock,   \* AgentOrchestrator.processing_lock: None or a Lock
    locks,             \* the asyncio.Lock objects created so far
    stats,             \* AgentOrchestrator.stats
    pc,                \* where each run is
    trigger,           \* how each run was started
    limit,             \* email_limit of each run
    new_emails,        \* the messages the run fetched
    idx,               \* position in new_emails, then in tasks
    tasks,             \* the Tasks the run built
    page_ids,          \* the commit results so far
    lockRef,           \* the Lock the run got from _get_processing_lock
    disp,              \* history: disposition of each message the run handled
    outcome,           \* history: why each commit result is what it is
    markedBy,          \* history: identifiers the run added to processed_emails
    raised,            \* history: the run left the pipeline by an exception
    prev,              \* history: the run that had just finished when this one began
    fetchInbox,        \* history: the size of the inbox when the run fetched
    procBefore,        \* history: the processed set when the run began
    ctor,              \* where AgentOrchestrator.__init__ is, or how it ended
    probe              \* the arguments and the result of a function applied on its own

vars == <<inboxLen, processed_emails, disk, store, processing_lock, locks, stats,
          pc, trigger, limit, new_emails, idx, tasks, page_ids, lockRef,
          disp, outcome, markedBy, raised, prev, fetchInbox, procBefore,
          ctor, probe>>

shared == <<inboxLen, processed_emails, disk, store, processing_lock, locks, stats>>

\* No function is being applied on its own.
NoProbe == [fn |-> "none"]

NewLock == [locked |-> FALSE, waiters |-> << >>, woken |-> {}, loop |-> -1]

Init ==
    /\ inboxLen = 0
    /\ processed_emails = {}
    /\ disk = {}
    /\ store = << >>
    /\ processing_lock = None
    /\ locks = [l \in Runs |-> NewLock]
    /\ stats = [tasks_created |-> 0, emails_processed |-> 0, errors |-> 0]
    /\ pc = [r \in Runs |-> "idle"]
    /\ trigger = [r \in Runs |-> "none"]
    /\ limit = [r \in Runs |-> 0]
    /\ new_emails = [r \in Runs |-> << >>]
    /\ idx = [r \in Runs |-> 0]
    /\ tasks = [r \in Runs |-> << >>]
    /\ page_ids = [r \in Runs |-> << >>]
    /\ lockRef = [r \in Runs |-> None]
    /\ disp = [r \in Runs |-> << >>]
    /\ outcome = [r \in Runs |-> << >>]
    /\ markedBy = [r \in Runs |-> {}]
    /\ raised = [r \in Runs |-> FALSE]
    /\ prev = [r \in Runs |-> 0]
    /\ fetchInbox = [r \in Runs |-> 0]
    /\ procBefore = [r \in Runs |-> {}]
    /\ ctor = "done"
    /\ probe = NoProbe

\* ------------------------------------------------------------ scheduling
Active(r) == pc[r] \notin {"idle", "done"}

\* The event loop a run executes on: 0 is the API server's loop.
LoopOf(r) == IF trigger[r] = "manual" THEN 0 ELSE r

\* A coroutine that is not running: not begun, at an await, or finished.
Suspended(r) == pc[r] \in {"idle", "fetching", "awaiting", "waiting", "sleeping", "done"}

\* Coroutines of one event loop never run inside each other's segments.
CanStep(r) ==
    \A r2 \in Runs \ {r} :
        (Active(r2) /\ LoopOf(r2) = LoopOf(r)) => Suspended(r2)

\* A new message arrives in the inbox.  Only fetch_new_emails reads the
\* inbox, so arrivals are taken when a run is about to fetch.
Arrive ==
    /\ inboxLen < MaxMsgs
    /\ \E r \in Runs : pc[r] = "fetching"
    /\ inboxLen' = inboxLen + 1
    /\ UNCHANGED <<processed_emails, disk, store, processing_lock, locks, stats,
                   pc, trigger, limit, new_emails, idx, tasks, page_ids, lockRef,
                   disp, outcome, markedBy, raised, prev, fetchInbox, procBefore>>
    /\ UNCHANGED <<ctor, probe>>

\* A trigger starts process_email_to_notion_pipeline: the scheduler
\* (run_single_cycle_with_config), the API (manual) or the IDLE listener (push).
StartRun(r, trig) ==
    /\ pc[r] = "idle"
    /\ \A r2 \in Runs : r2 < r => pc[r2] # "idle"
    /\ trig = "scheduled" => \A r2 \in Runs : ~(Active(r2) /\ trigger[r2] = "scheduled")
    /\ pc' = [pc EXCEPT ![r] = "fetching"]
    /\ trigger' = [trigger EXCEPT ![r] = trig]
    /\ limit' = [limit EXCEPT ![r] = IF trig = "push" THEN FastLimit ELSE DefaultLimit]
    /\ prev' = [prev EXCEPT ![r] =
                  IF r > 1 /\ \A r2 \in Runs : ~Active(r2) THEN r - 1 ELSE 0]
    /\ procBefore' = [procBefore EXCEPT ![r] = processed_emails]
    /\ UNCHANGED <<shared, new_emails, idx, tasks, page_ids, lockRef,
                   disp, outcome, markedBy, raised, fetchInbox>>
    /\ UNCHANGED <<ctor, probe>>

\* ------------------------------------------------------------- EmailAgent
\* email_ids[::-1][:limit]: the newest lim messages, newest first.
Window(len, lim) ==
    LET n == IF len > lim THEN lim ELSE len
    IN [i \in 1..n |-> len - i + 1]

\* A fetch that does not consult the processed set.
fetch_unfiltered(len, lim, proc, connected, bad) ==
    LET Parsed(m) == m # bad
    IN IF connected THEN SelectSeq(Window(len, lim), Parsed) ELSE << >>

\* fetch_new_emails: parsed messages of the window whose identifier is not in
\* the processed set.  connected = FALSE: connecting or searching failed;
\* bad: the message whose parsing failed (0: none).
fetch_new_emails(len, lim, proc, connected, bad) ==
    LET Fresh(m) == m # bad /\ MessageId(m) \notin proc
    IN IF connected THEN SelectSeq(Window(len, lim), Fresh) ELSE << >>

\* _save_processed_emails: pickle the set; a failure is logged and dropped.
_save_processed_emails(file, proc, ok) == IF ok THEN proc ELSE file

\* What the model call gives back: a verdict, or an exception.
Replies ==
    {[error |-> FALSE, verdict |-> v] : v \in Verdicts}
        \cup {[error |-> TRUE, verdict |-> CHOOSE v \in Verdicts : TRUE]}

\* An acceptance test without the confidence threshold.
AcceptsAnyConfidence(verdict) == verdict.is_task

\* An acceptance test that wants the confidence above the threshold.
AcceptsAbove(verdict) ==
    verdict.is_task /\ verdict.confidence > ConfidenceThreshold

\* The acceptance test of extract_tasks_from_email.
Accepts(verdict) ==
    verdict.is_task /\ verdict.confidence >= ConfidenceThreshold

BuildTask(m, verdict) ==
    [title |-> verdict.title, description |-> verdict.description,
     source_id |-> MessageId(m)]

\* An entry that has the seen-before check and no automation filter.
PreFilterSeenOnly(m, proc) ==
    IF MessageId(m) \in proc THEN "seen" ELSE "classify"

\* extract_tasks_from_email before its await: the message goes to the model
\* unless it was seen before or the automation filter rejects it.
PreFilter(m, proc) ==
    IF MessageId(m) \in proc THEN "seen"
    ELSE IF _is_automated_email(m) THEN "filtered"
    ELSE "classify"

\* extract_tasks_from_email after the model replied: << >> is None, <<t>> the
\* Task t.  The except clause turns an error of the call into None.
AfterReply(m, reply) ==
    IF reply.error THEN << >>
    ELSE IF Accepts(reply.verdict) THEN <<BuildTask(m, reply.verdict)>>
    ELSE << >>

\* process_new_emails: a message for which extract_tasks_from_email gave no
\* Task is added to the processed set.
MarksProcessed(result) == result = << >>

\* A loop that an error of the classification call ends.
LoopNextBreak(i, n, d) == IF d = "error" THEN n + 1 ELSE i + 1

\* A loop that does not move on from the message it handled.
LoopNextAgain(i, n, d) == i

\* The for loop of process_new_emails goes on with the next message, whatever
\* happened to message i of the n (d: what happened).
LoopNext(i, n, d) == i + 1

\* The case a reply is, stated on the reply alone.
ReplyCase(reply) ==
    IF reply.error THEN "error"
    ELSE IF reply.verdict.is_task /\ reply.verdict.confidence >= ConfidenceThreshold THEN "accepted"
    ELSE "rejected"

\* A run that goes on after a fetch that gave nothing.
EndsRunNever(emails) == FALSE

\* `if not new_emails: return []`, and `if not new_tasks: return` in the
\* pipeline: a fetch that gave nothing ends the run.
EndsRun(emails) == emails = << >>

\* The run fetches (process_new_emails up to its loop); nothing new ends the
\* run.
Fetch(r) ==
    /\ pc[r] = "fetching"
    /\ CanStep(r)
    /\ \E connected \in BOOLEAN, bad \in {0} \cup 1..inboxLen :
         LET emails == fetch_new_emails(inboxLen, limit[r], processed_emails,
                                        connected, bad)
         IN /\ new_emails' = [new_emails EXCEPT ![r] = emails]
            /\ pc' = [pc EXCEPT ![r] = IF EndsRun(emails) THEN "done" ELSE "classify"]
            /\ idx' = [idx EXCEPT ![r] = IF EndsRun(emails) THEN 0 ELSE 1]
    /\ fetchInbox' = [fetchInbox EXCEPT ![r] = inboxLen]
    /\ UNCHANGED <<shared, trigger, limit, tasks, page_ids, lockRef,
                   disp, outcome, markedBy, raised, prev, procBefore>>
    /\ UNCHANGED <<ctor, probe>>

\* The rest of process_new_emails after extract_tasks_from_email returned
\* result for message idx[r], and of the pipeline up to the commit gate: the
\* loop goes on, or the set is saved and the pipeline returns (no Task) or
\* goes to the gate.
Disposed(r, d, result) ==
    LET m == new_emails[r][idx[r]]
        proc == IF MarksProcessed(result)
                THEN processed_emails \cup {MessageId(m)}
                ELSE processed_emails
        newTasks == tasks[r] \o result
        next == LoopNext(idx[r], Len(new_emails[r]), d)
    IN /\ processed_emails' = proc
       /\ markedBy' = [markedBy EXCEPT ![r] =
                          IF MarksProcessed(result) THEN @ \cup {MessageId(m)} ELSE @]
       /\ disp' = [disp EXCEPT ![r] = Append(@, d)]
       /\ tasks' = [tasks EXCEPT ![r] = newTasks]
       /\ IF next <= Len(new_emails[r])
          THEN /\ idx' = [idx EXCEPT ![r] = next]
               /\ pc' = [pc EXCEPT ![r] = "classify"]
               /\ disk' = disk
          ELSE /\ idx' = [idx EXCEPT ![r] = 0]
               /\ pc' = [pc EXCEPT ![r] = IF newTasks = << >> THEN "done" ELSE "gate"]
               /\ \E ok \in BOOLEAN :
                    disk' = _save_processed_emails(disk, proc, ok)

\* extract_tasks_from_email up to the model call.
ClassifyStart(r) ==
    /\ pc[r] = "classify"
    /\ CanStep(r)
    /\ LET d == PreFilter(new_emails[r][idx[r]], processed_emails)
       IN IF d = "classify"
          THEN /\ pc' = [pc EXCEPT ![r] = "awaiting"]
               /\ UNCHANGED <<processed_emails, disk, idx, tasks, disp, markedBy>>
          ELSE Disposed(r, d, << >>)
    /\ UNCHANGED <<inboxLen, store, processing_lock, locks, stats, trigger, limit,
                   new_emails, page_ids, lockRef, outcome, raised,
                   prev, fetchInbox, procBefore>>
    /\ UNCHANGED <<ctor, probe>>

\* The model call returns a verdict or raises.
ClassifyReturn(r) ==
    /\ pc[r] = "awaiting"
    /\ CanStep(r)
    /\ \E reply \in Replies :
         Disposed(r, ReplyCase(reply), AfterReply(new_emails[r][idx[r]], reply))
    /\ UNCHANGED <<inboxLen, store, processing_lock, locks, stats, trigger, limit,
                   new_emails, page_ids, lockRef, outcome, raised,
                   prev, fetchInbox, procBefore>>
    /\ UNCHANGED <<ctor, probe>>

\* ------------------------------------------------------------ commit gate
\* _get_processing_lock, its test: the Lock exists, or is yet to be created.
GetLock(r) ==
    /\ pc[r] = "gate"
    /\ CanStep(r)
    /\ IF processing_lock = None
       THEN /\ pc' = [pc EXCEPT ![r] = "gate_create"]
            /\ lockRef' = lockRef
       ELSE /\ pc' = [pc EXCEPT ![r] = "acquire"]
            /\ lockRef' = [lockRef EXCEPT ![r] = processing_lock]
    /\ UNCHANGED <<shared, trigger, limit, new_emails, idx, tasks, page_ids,
                   disp, outcome, markedBy, raised,
                   prev, fetchInbox, procBefore>>
    /\ UNCHANGED <<ctor, probe>>

\* _get_processing_lock, its assignment: a new Lock replaces whatever the
\* attribute holds by now.
CreateLock(r) ==
    /\ pc[r] = "gate_create"
    /\ CanStep(r)
    /\ processing_lock' = r
    /\ locks' = [locks EXCEPT ![r] = NewLock]
    /\ lockRef' = [lockRef EXCEPT ![r] = r]
    /\ pc' = [pc EXCEPT ![r] = "acquire"]
    /\ UNCHANGED <<inboxLen, processed_emails, disk, store, stats, trigger, limit,
                   new_emails, idx, tasks, page_ids, disp, outcome, markedBy, raised,
                   prev, fetchInbox, procBefore>>
    /\ UNCHANGED <<ctor, probe>>

\* Lock.acquire without waiting: the lock is free and nobody waits for it.
LockFree(l) == ~l.locked /\ l.waiters = << >>

\* Lock._get_loop: a Lock belongs to the event loop of its first waiter.
BoundElsewhere(l, loop) == l.loop # -1 /\ l.loop # loop

\* async with processing_lock: the run takes the lock, or waits for it, or
\* (a Lock of another event loop) gets RuntimeError, which ends the pipeline
\* through its except clause.
Acquire(r) ==
    /\ pc[r] = "acquire"
    /\ CanStep(r)
    /\ LET l == locks[lockRef[r]]
       IN IF LockFree(l)
          THEN /\ locks' = [locks EXCEPT ![lockRef[r]].locked = TRUE]
               /\ pc' = [pc EXCEPT ![r] = "commit"]
               /\ idx' = [idx EXCEPT ![r] = 1]
               /\ UNCHANGED <<stats, raised,
                   prev, fetchInbox, procBefore>>
          ELSE IF BoundElsewhere(l, LoopOf(r))
          THEN /\ stats' = [stats EXCEPT !.errors = @ + 1]
               /\ raised' = [raised EXCEPT ![r] = TRUE]
               /\ pc' = [pc EXCEPT ![r] = "done"]
               /\ UNCHANGED <<locks, idx,
                   prev, fetchInbox, procBefore>>
          ELSE /\ locks' = [locks EXCEPT ![lockRef[r]].waiters = Append(@, r),
                                         ![lockRef[r]].loop = LoopOf(r)]
               /\ pc' = [pc EXCEPT ![r] = "waiting"]
               /\ UNCHANGED <<stats, raised, idx,
                   prev, fetchInbox, procBefore>>
    /\ UNCHANGED <<inboxLen, processed_emails, disk, store, processing_lock,
                   trigger, limit, new_emails, tasks, page_ids, lockRef,
                   disp, outcome, markedBy,
                   prev, fetchInbox, procBefore>>
    /\ UNCHANGED <<ctor, probe>>

\* Lock.acquire after its wait: the releasing run has set the waiter's future.
WakeUp(r) ==
    /\ pc[r] = "waiting"
    /\ CanStep(r)
    /\ r \in locks[lockRef[r]].woken
    /\ locks' = [locks EXCEPT
                   ![lockRef[r]].waiters = SelectSeq(@, LAMBDA w : w # r),
                   ![lockRef[r]].woken = @ \ {r},
                   ![lockRef[r]].locked = TRUE]
    /\ pc' = [pc EXCEPT ![r] = "commit"]
    /\ idx' = [idx EXCEPT ![r] = 1]
    /\ UNCHANGED <<inboxLen, processed_emails, disk, store, processing_lock, stats,
                   trigger, limit, new_emails, tasks, page_ids, lockRef,
                   disp, outcome, markedBy, raised,
                   prev, fetchInbox, procBefore>>
    /\ UNCHANGED <<ctor, probe>>

\* Lock.release: the lock is free again and the first waiter's future is set.
Release(l) ==
    [l EXCEPT !.locked = FALSE,
              !.woken = IF l.waiters = << >> THEN @ ELSE @ \cup {Head(l.waiters)}]

\* ------------------------------------------------------------ NotionAgent
\* create_task_in_notion: "duplicate" (skipped), "created", or "error" (the
\* create call raised); the last two after a similarity check that found nothing.
create_task_in_notion(task, st, query_ok, create_ok) ==
    IF _task_exists(task, st, query_ok) THEN "duplicate"
    ELSE IF create_ok THEN "created"
    ELSE "error"

\* A batch that a failed create ends.
BatchNextAbort(i, n, res) == IF res = "error" THEN n + 1 ELSE i + 1

\* The for loop of batch_create_tasks goes on with the next task, whatever
\* the result res for task i of the n was.
BatchNext(i, n, res) == i + 1

\* batch_create_tasks, one turn of its loop: the task is created or not, its
\* result is appended, and the coroutine sleeps.
CommitItem(r) ==
    /\ pc[r] \in {"commit", "sleeping"}
    /\ CanStep(r)
    /\ idx[r] <= Len(tasks[r])
    /\ \E query_ok \in BOOLEAN, create_ok \in BOOLEAN :
         LET task == tasks[r][idx[r]]
             res == create_task_in_notion(task, store, query_ok, create_ok)
         IN /\ store' = IF res = "created" THEN Append(store, task) ELSE store
            /\ page_ids' = [page_ids EXCEPT ![r] =
                               Append(@, IF res = "created" THEN Len(store) + 1 ELSE None)]
            /\ outcome' = [outcome EXCEPT ![r] = Append(@, res)]
            /\ idx' = [idx EXCEPT ![r] = BatchNext(idx[r], Len(tasks[r]), res)]
    /\ pc' = [pc EXCEPT ![r] = "sleeping"]
    /\ UNCHANGED <<inboxLen, processed_emails, disk, processing_lock, locks, stats,
                   trigger, limit, new_emails, tasks, lockRef, disp, markedBy, raised,
                   prev, fetchInbox, procBefore>>
    /\ UNCHANGED <<ctor, probe>>

\* ------------------------------------------------------- the pipeline's end
\* A pipeline that marks every task of the batch, created or not.
MarkedWhateverResult(ts, pids) ==
    {ts[i].source_id : i \in {j \in 1..Len(ts) : ts[j].source_id # NoId}}

\* A pipeline that pairs the tasks with the results in the opposite order.
MarkedByOppositeResult(ts, pids) ==
    {ts[i].source_id :
        i \in {j \in 1..Len(ts) : pids[Len(ts) + 1 - j] # None /\ ts[j].source_id # NoId}}

\* The identifiers the pipeline marks after the batch: those of the tasks
\* with a page id, when the task has a source_id.  zip pairs the tasks with
\* the results as far as both go.
MarkedAfterCommit(ts, pids) ==
    LET paired == IF Len(ts) <= Len(pids) THEN Len(ts) ELSE Len(pids)
    IN {ts[i].source_id : i \in {j \in 1..paired : pids[j] # None /\ ts[j].source_id # NoId}}

\* A count that takes every commit result for a created record.
CountAll(pids) == Len(pids)

CreatedCount(pids) == Cardinality({i \in 1..Len(pids) : pids[i] # None})

\* The pipeline after batch_create_tasks returned: it marks, saves when a
\* task was created, updates the stats and leaves the lock.
Finalize(r) ==
    /\ pc[r] = "sleeping"
    /\ CanStep(r)
    /\ idx[r] > Len(tasks[r])
    /\ LET marks == MarkedAfterCommit(tasks[r], page_ids[r])
           created_count == CreatedCount(page_ids[r])
       IN /\ processed_emails' = processed_emails \cup marks
          /\ markedBy' = [markedBy EXCEPT ![r] = @ \cup marks]
          /\ IF created_count > 0
             THEN \E ok \in BOOLEAN :
                    disk' = _save_processed_emails(disk, processed_emails \cup marks, ok)
             ELSE disk' = disk
          /\ stats' = [stats EXCEPT !.tasks_created = @ + created_count,
                                    !.emails_processed = @ + Len(tasks[r])]
    /\ locks' = [locks EXCEPT ![lockRef[r]] = Release(@)]
    /\ pc' = [pc EXCEPT ![r] = "done"]
    /\ UNCHANGED <<inboxLen, store, processing_lock, trigger, limit, new_emails,
                   idx, tasks, page_ids, lockRef, disp, outcome, raised,
                   prev, fetchInbox, procBefore>>
    /\ UNCHANGED <<ctor, probe>>

Next ==
    \/ Arrive
    \/ \E r \in Runs, trig \in {"scheduled", "manual", "push"} : StartRun(r, trig)
    \/ \E r \in Runs : Fetch(r)
    \/ \E r \in Runs : ClassifyStart(r)
    \/ \E r \in Runs : ClassifyReturn(r)
    \/ \E r \in Runs : GetLock(r)
    \/ \E r \in Runs : CreateLock(r)
    \/ \E r \in Runs : Acquire(r)
    \/ \E r \in Runs : WakeUp(r)
    \/ \E r \in Runs : CommitItem(r)
    \/ \E r \in Runs : Finalize(r)

Spec == Init /\ [][Next]_vars

\* ------------------------------------------------------------------ claims
\* The run holds the commit gate: it is in its Committing phase.
Holding(r) == pc[r] \in {"commit", "sleeping"}

\* process_new_emails of the run has returned with messages handled.
ExtractionReturned(r) ==
    \/ pc[r] \in {"gate", "gate_create", "acquire", "waiting", "commit", "sleeping"}
    \/ pc[r] = "done" /\ new_emails[r] # << >>

\* The step is one of run r.
Steps(r) == pc'[r] # pc[r] \/ idx'[r] # idx[r]

HasTaskOf(r, m) == \E k \in 1..Len(tasks[r]) : tasks[r][k].source_id = MessageId(m)

\* C1: no two records of the destination store carry the same (non-empty)
\* source_id, whatever runs there were and however they overlapped.
C1_AtMostOnce ==
    \A i, j \in 1..Len(store) :
        (i # j /\ store[i].source_id # NoId) => store[i].source_id # store[j].source_id

\* C2: when a run has ended, it has not added to the processed set the
\* identifier of a message whose classification call raised in that run.
C2_ErrorNotMarked ==
    \A r \in Runs :
        pc[r] = "done" =>
            \A i \in 1..Len(disp[r]) :
                disp[r][i] = "error" => MessageId(new_emails[r][i]) \notin markedBy[r]

\* C3: in a run where a classification call raised, once process_new_emails
\* has returned every fetched message has been handled; every other message
\* has its disposition (an accepted one its Task, in the batch of the run; any
\* other its identifier in the processed set); the batch is exactly the Tasks
\* of the accepted messages; and the run goes to the commit gate with it: it
\* does not end without a commit result for each Task unless the gate raised.
C3_ErrorIsolation ==
    \A r \in Runs :
        (ExtractionReturned(r) /\ \E i \in 1..Len(disp[r]) : disp[r][i] = "error") =>
            /\ Len(disp[r]) = Len(new_emails[r])
            /\ \A i \in 1..Len(disp[r]) :
                 /\ disp[r][i] = "accepted" => HasTaskOf(r, new_emails[r][i])
                 /\ disp[r][i] \in {"seen", "filtered", "rejected"} =>
                        MessageId(new_emails[r][i]) \in processed_emails
            /\ Len(tasks[r]) = Cardinality({i \in 1..Len(disp[r]) : disp[r][i] = "accepted"})
            /\ (pc[r] = "done" /\ ~raised[r]) => Len(page_ids[r]) = Len(tasks[r])

\* A run of two messages ended: the call for one raised, the other became a
\* Task that was created.
C3_Witness ==
    \E r \in Runs :
        /\ pc[r] = "done"
        /\ \E i, j \in 1..Len(disp[r]) : disp[r][i] = "error" /\ disp[r][j] = "accepted"
        /\ \E k \in 1..Len(page_ids[r]) : page_ids[r][k] # None

\* C4: a run adds the identifier of a message that produced a Task only when
\* the create call for that Task has returned a page id; after a create call
\* that failed the identifier is not among those the run added.
C4_MarkOnlyAfterCreate ==
    \A r \in Runs :
        \A k \in 1..Len(tasks[r]) :
            tasks[r][k].source_id \in markedBy[r] =>
                k <= Len(page_ids[r]) /\ page_ids[r][k] # None

\* A run ended with one Task created and marked and one whose create call
\* failed, its message still unprocessed.
C4_Witness ==
    \E r \in Runs :
        /\ pc[r] = "done"
        /\ \E i, j \in 1..Len(page_ids[r]) :
             /\ outcome[r][i] = "error"
             /\ tasks[r][i].source_id \notin markedBy[r]
             /\ page_ids[r][j] # None
             /\ tasks[r][j].source_id \in markedBy[r]

\* C5: when a run has ended, a Task of it that the similarity check found to
\* be a duplicate has the result None and its (non-empty) identifier is in the
\* processed set.
C5_DuplicateMarked ==
    \A r \in Runs :
        pc[r] = "done" =>
            \A i \in 1..Len(outcome[r]) :
                (outcome[r][i] = "duplicate" /\ tasks[r][i].source_id # NoId) =>
                    /\ page_ids[r][i] = None
                    /\ tasks[r][i].source_id \in processed_emails

\* C6: when a run has ended, the identifier of every Task of it that was
\* created is in the processed set and in the pickle on disk.
C6_CommittedMarked ==
    \A r \in Runs :
        pc[r] = "done" =>
            \A i \in 1..Len(page_ids[r]) :
                page_ids[r][i] # None =>
                    /\ tasks[r][i].source_id \in processed_emails
                    /\ tasks[r][i].source_id \in disk

\* C7: once process_new_emails has returned, a message of the run that the
\* automation filter rejected, or whose verdict was no task or below the
\* threshold, has no Task in the batch and its identifier in the processed set.
C7_RejectedMarked ==
    \A r \in Runs :
        ExtractionReturned(r) =>
            \A i \in 1..Len(disp[r]) :
                disp[r][i] \in {"filtered", "rejected"} =>
                    /\ ~HasTaskOf(r, new_emails[r][i])
                    /\ MessageId(new_emails[r][i]) \in processed_emails

\* A run went to the gate with a Task, after the filter rejected one of its
\* messages; another run's verdict was below the threshold.
C7_Witness ==
    /\ \E r \in Runs :
         /\ pc[r] = "gate"
         /\ \E i \in 1..Len(disp[r]) : disp[r][i] = "filtered"
    /\ \E r \in Runs :
         /\ ExtractionReturned(r)
         /\ \E i \in 1..Len(disp[r]) : disp[r][i] = "rejected"

\* C8: at most one run is in its Committing phase.
C8_MutualExclusion == Cardinality({r \in Runs : Holding(r)}) <= 1

\* C9: while a run holds the commit gate, no step of another run changes the
\* processed set, the pickle on disk or the destination store.
C9_NoWriteWhileHeld ==
    [][\A r, r2 \in Runs :
          (r # r2 /\ Holding(r) /\ Steps(r2)) =>
              /\ processed_emails' = processed_emails
              /\ disk' = disk
              /\ store' = store]_vars

\* The run follows run prev[r] with nothing in between, and fetched from the
\* inbox that run fetched from.
SecondOfTwo(r) ==
    /\ pc[r] = "done"
    /\ prev[r] # 0
    /\ fetchInbox[r] = fetchInbox[prev[r]]

SenderIsAutomated(m) == \E indicator \in automated_senders : indicator \in Sender(m)

\* The dispositions a message gets only from a call of the classifier.
CallDispositions == {"error", "accepted", "rejected"}

\* C11: no run has a classifier call pending for, or got a verdict or an
\* error of the classifier for, a message whose sender matches an
\* automated-sender pattern.
C11_AutomatedNeverClassified ==
    \A r \in Runs :
        /\ pc[r] = "awaiting" => ~SenderIsAutomated(new_emails[r][idx[r]])
        /\ \A i \in 1..Len(disp[r]) :
             SenderIsAutomated(new_emails[r][i]) => disp[r][i] \notin CallDispositions

\* A run ended that fetched a message of an automated sender and disposed of
\* it by the filter, while the classifier was called for another message.
C11_Witness ==
    \E r \in Runs :
        /\ pc[r] = "done"
        /\ \E i, j \in 1..Len(disp[r]) :
             /\ SenderIsAutomated(new_emails[r][i])
             /\ disp[r][i] = "filtered"
             /\ disp[r][j] \in CallDispositions

\* ------------------------------------------- construction and push runs
\* AgentOrchestrator.__init__ with the runs the IDLE listener starts.  Every
\* such run has a thread of its own, so another run can step between any two
\* statements of it: the checks of extract_tasks_from_email and its model call
\* are steps of their own here.

\* The state of a process that has just begun to construct its orchestrator.
StateAtStart ==
    /\ inboxLen = 0
    /\ processed_emails = {}
    /\ disk = {}
    /\ store = << >>
    /\ pc = [r \in Runs |-> "idle"]
    /\ trigger = [r \in Runs |-> "none"]
    /\ limit = [r \in Runs |-> 0]
    /\ new_emails = [r \in Runs |-> << >>]
    /\ idx = [r \in Runs |-> 0]
    /\ tasks = [r \in Runs |-> << >>]
    /\ page_ids = [r \in Runs |-> << >>]
    /\ lockRef = [r \in Runs |-> None]
    /\ disp = [r \in Runs |-> << >>]
    /\ outcome = [r \in Runs |-> << >>]
    /\ markedBy = [r \in Runs |-> {}]
    /\ raised = [r \in Runs |-> FALSE]
    /\ prev = [r \in Runs |-> 0]
    /\ fetchInbox = [r \in Runs |-> 0]
    /\ procBefore = [r \in Runs |-> {}]

\* The agents and the RealTimeEmailProcessor exist; nothing else does yet.
InitPush ==
    /\ StateAtStart
    /\ stats = [tasks_created |-> 0, emails_processed |-> 0, errors |-> 0]
    /\ probe = NoProbe
    /\ processing_lock = None
    /\ locks = [l \in Runs |-> NewLock]
    /\ ctor = "new"

\* The variables of the runs and of what they share.
runVars == <<inboxLen, processed_emails, disk, store, processing_lock, locks, stats,
             pc, trigger, limit, new_emails, idx, tasks, page_ids, lockRef,
             disp, outcome, markedBy, raised, prev, fetchInbox, procBefore>>

\* __init__ starts the thread of _start_realtime_delayed, which starts the
\* IDLE listener whatever becomes of the constructor.
StartListener ==
    /\ ctor = "new"
    /\ ctor' = "listener"
    /\ UNCHANGED <<runVars, probe>>

\* __init__ validates the destination schema: it goes on to its end, or
\* raises ValueError.
Validate ==
    /\ ctor = "listener"
    /\ \E valid \in BOOLEAN : ctor' = IF valid THEN "done" ELSE "failed"
    /\ UNCHANGED <<runVars, probe>>

\* The caller of the failed constructor lets the process end (main, the API
\* server); the dashboard catches the error and lives on.
Exit ==
    /\ ctor = "failed"
    /\ ctor' = "exited"
    /\ UNCHANGED <<runVars, probe>>

\* The listener thread is alive.
Listening == ctor \in {"listener", "done", "failed"}

\* The IDLE listener saw a new message: _trigger_email_processing.
PushRun(r) ==
    /\ Listening
    /\ StartRun(r, "push")

\* extract_tasks_from_email, its seen-before check and automation filter.
CheckBeforeCall(r) ==
    /\ pc[r] = "classify"
    /\ CanStep(r)
    /\ LET d == PreFilter(new_emails[r][idx[r]], processed_emails)
       IN IF d = "classify"
          THEN /\ pc' = [pc EXCEPT ![r] = "calling"]
               /\ UNCHANGED <<processed_emails, disk, idx, tasks, disp, markedBy>>
          ELSE Disposed(r, d, << >>)
    /\ UNCHANGED <<inboxLen, store, processing_lock, locks, stats, trigger, limit,
                   new_emails, page_ids, lockRef, outcome, raised,
                   prev, fetchInbox, procBefore>>
    /\ UNCHANGED <<ctor, probe>>

\* extract_tasks_from_email, its call of the model.
CallModel(r) ==
    /\ pc[r] = "calling"
    /\ pc' = [pc EXCEPT ![r] = "awaiting"]
    /\ UNCHANGED <<shared, trigger, limit, new_emails, idx, tasks, page_ids, lockRef,
                   disp, outcome, markedBy, raised, prev, fetchInbox, procBefore>>
    /\ UNCHANGED <<ctor, probe>>

\* _get_processing_lock of an orchestrator whose constructor did not reach
\* its end: the attribute does not exist, and neither does stats, so the
\* AttributeError leaves the pipeline.
GetLockUnset(r) ==
    /\ pc[r] = "gate"
    /\ ctor # "done"
    /\ pc' = [pc EXCEPT ![r] = "done"]
    /\ raised' = [raised EXCEPT ![r] = TRUE]
    /\ UNCHANGED <<shared, trigger, limit, new_emails, idx, tasks, page_ids, lockRef,
                   disp, outcome, markedBy, prev, fetchInbox, procBefore>>
    /\ UNCHANGED <<ctor, probe>>

NextPush ==
    \/ StartListener
    \/ Validate
    \/ Exit
    \/ Listening /\ Arrive
    \/ \E r \in Runs : PushRun(r)
    \/ \E r \in Runs : Listening /\ Fetch(r)
    \/ \E r \in Runs : Listening /\ CheckBeforeCall(r)
    \/ \E r \in Runs : Listening /\ CallModel(r)
    \/ \E r \in Runs : Listening /\ ClassifyReturn(r)
    \/ \E r \in Runs : Listening /\ GetLockUnset(r)
    \/ \E r \in Runs : ctor = "done" /\ GetLock(r)
    \/ \E r \in Runs : Listening /\ CreateLock(r)
    \/ \E r \in Runs : Listening /\ Acquire(r)
    \/ \E r \in Runs : Listening /\ WakeUp(r)
    \/ \E r \in Runs : Listening /\ CommitItem(r)
    \/ \E r \in Runs : Listening /\ Finalize(r)

SpecPush == InitPush /\ [][NextPush]_vars

\* C12: the classifier is called only for a message whose identifier is not
\* in the processed set at the time of the call.
C12_NotSeenAtCall ==
    [][\A r \in Runs :
          (pc[r] = "calling" /\ pc'[r] = "awaiting") =>
              MessageId(new_emails[r][idx[r]]) \notin processed_emails]_vars

\* C16: once schema validation has failed no run starts.
C16_NoRunAfterFailedValidation ==
    [][(ctor \in {"failed", "exited"}) =>
          (\A r \in Runs : (pc[r] = "idle" => pc'[r] = "idle"))]_vars

\* ------------------------------------------ extract_tasks_from_email alone
\* extract_tasks_from_email as a function of the message, the processed set
\* and the reply of the model: << >> is None, <<t>> the Task t.
extract_tasks_from_email(m, proc, reply) ==
    IF PreFilter(m, proc) # "classify" THEN << >> ELSE AfterReply(m, reply)

\* The identifiers a processed set can hold.
Identifiers == {MessageId(m) : m \in Msgs}

\* An orchestrator at rest, about to apply one function to one input.
AtRest ==
    /\ StateAtStart
    /\ stats = [tasks_created |-> 0, emails_processed |-> 0, errors |-> 0]
    /\ processing_lock = None
    /\ locks = [l \in Runs |-> NewLock]
    /\ ctor = "done"

InitExtract ==
    /\ AtRest
    /\ probe \in {[fn |-> "extract", m |-> m, proc |-> proc, reply |-> reply,
                   done |-> FALSE, out |-> << >>] :
                     m \in Msgs, proc \in SUBSET Identifiers, reply \in Replies}

ApplyExtract ==
    /\ probe.fn = "extract"
    /\ ~probe.done
    /\ probe' = [probe EXCEPT
                   !.done = TRUE,
                   !.out = extract_tasks_from_email(probe.m, probe.proc, probe.reply)]
    /\ UNCHANGED <<runVars, ctor>>

NextExtract == ApplyExtract

SpecExtract == InitExtract /\ [][NextExtract]_vars

\* The function was applied to an unprocessed message that is not automated
\* and the model gave a verdict.
VerdictCase ==
    /\ probe.fn = "extract"
    /\ probe.done
    /\ MessageId(probe.m) \notin probe.proc
    /\ ~_is_automated_email(probe.m)
    /\ ~probe.reply.error

\* C13 as stated: a Task is built if and only if the confidence of the
\* verdict is at least 0.80.
C13_TaskIffConfident ==
    VerdictCase =>
        (probe.out # << >> <=> probe.reply.verdict.confidence >= ConfidenceThreshold)

\* C13 as amended: a Task is built if and only if the verdict says is_task
\* and its confidence is at least 0.80; 0.79 gives none, 0.80 gives one.
C13_TaskIffTaskAndConfident ==
    VerdictCase =>
        /\ probe.out # << >> <=>
               (probe.reply.verdict.is_task
                   /\ probe.reply.verdict.confidence >= ConfidenceThreshold)
        /\ (probe.reply.verdict.is_task /\ probe.reply.verdict.confidence = 80) =>
               probe.out # << >>
        /\ probe.reply.verdict.confidence = 79 => probe.out = << >>

\* A verdict with is_task and the confidence exactly at the threshold became
\* a Task.
C13_Witness ==
    /\ VerdictCase
    /\ probe.reply.verdict.is_task
    /\ probe.reply.verdict.confidence = ConfidenceThreshold
    /\ probe.out # << >>

\* batch_create_tasks of the run has returned.
BatchReturned(r) == pc[r] = "done" /\ tasks[r] # << >> /\ ~raised[r]

\* C14: the batch has at most one result per task while it runs and exactly
\* one when it has returned; a result that is a page id is the id of the
\* record created from the task at its position; and when the run has ended
\* it has marked the identifier of a task exactly when the result at the
\* position of the task is a page id (and the identifier is not empty).
C14_PositionalResults ==
    \A r \in Runs :
        /\ Len(page_ids[r]) <= Len(tasks[r])
        /\ \A i \in 1..Len(page_ids[r]) :
             page_ids[r][i] # None => store[page_ids[r][i]] = tasks[r][i]
        /\ BatchReturned(r) =>
             /\ Len(page_ids[r]) = Len(tasks[r])
             /\ \A i \in 1..Len(tasks[r]) :
                  tasks[r][i].source_id \in markedBy[r] <=>
                      (page_ids[r][i] # None /\ tasks[r][i].source_id # NoId)

\* A batch of two returned None for its first task and a page id for its
\* second, and the run marked the message of the second only.
C14_Witness ==
    \E r \in Runs :
        /\ BatchReturned(r)
        /\ Len(tasks[r]) = 2
        /\ page_ids[r][1] = None
        /\ page_ids[r][2] # None
        /\ tasks[r][2].source_id \in markedBy[r]
        /\ tasks[r][1].source_id \notin markedBy[r]

\* C15: a create call that failed has the result None, and the batch does not
\* return before every task of it was submitted: after a failure the tasks
\* behind it still get their result.
C15_FailureDoesNotAbortBatch ==
    \A r \in Runs :
        /\ \A i \in 1..Len(outcome[r]) : outcome[r][i] = "error" => page_ids[r][i] = None
        /\ (pc[r] = "done" /\ outcome[r] # << >>) => Len(outcome[r]) = Len(tasks[r])
        /\ Len(outcome[r]) = Len(page_ids[r])

\* The create call for the first task of a batch failed and the second task
\* was created after it.
C15_Witness ==
    \E r \in Runs :
        /\ pc[r] = "done"
        /\ Len(outcome[r]) = 2
        /\ outcome[r][1] = "error"
        /\ outcome[r][2] = "created"

\* C17: a run that ended without raising has every identifier it added in
\* the pickle on disk: it does not end normally after a save that failed.
C17_SaveFailureFatal ==
    \A r \in Runs :
        (pc[r] = "done" /\ ~raised[r]) => markedBy[r] \subseteq disk

\* The disposition of the message with this identifier is final: a record
\* was created from it, or a run saw it filtered out or rejected by the
\* classifier.
FinalDisposition(id) ==
    \/ \E k \in 1..Len(store) : store[k].source_id = id
    \/ \E r \in Runs : \E i \in 1..Len(disp[r]) :
         /\ MessageId(new_emails[r][i]) = id
         /\ disp[r][i] \in {"filtered", "rejected"}

\* C19: at every point of every run, whatever is in the pickle on disk is the
\* identifier of a message whose disposition is final.
C19_DiskOnlyFinal == \A id \in disk : FinalDisposition(id)

\* ---------------------------------------------- after an earlier contention
\* The orchestrator after two push runs met at the commit gate: the second
\* waited for the Lock, which has belonged to the event loop of that run ever
\* since.  The create calls of both runs failed, both runs have ended, their
\* threads and event loops are gone, and their messages have left the window
\* of the fetch.

\* The event loop of the push run that waited: none of the loops to come.
EarlierLoop == MaxRuns + 1

InitLater ==
    /\ StateAtStart
    /\ stats = [tasks_created |-> 0, emails_processed |-> 2, errors |-> 0]
    /\ processing_lock = 1
    /\ locks = [l \in Runs |->
                  IF l = 1 THEN [NewLock EXCEPT !.loop = EarlierLoop] ELSE NewLock]
    /\ ctor = "done"
    /\ probe = NoProbe

\* The Lock exists, and no run to come is on its event loop: no run creates a
\* Lock and none ever waits for it.
NextLater ==
    \/ Arrive
    \/ \E r \in Runs, trig \in {"scheduled", "manual", "push"} : StartRun(r, trig)
    \/ \E r \in Runs : Fetch(r)
    \/ \E r \in Runs : ClassifyStart(r)
    \/ \E r \in Runs : ClassifyReturn(r)
    \/ \E r \in Runs : GetLock(r)
    \/ \E r \in Runs : Acquire(r)
    \/ \E r \in Runs : CommitItem(r)
    \/ \E r \in Runs : Finalize(r)

SpecLater == InitLater /\ [][NextLater]_vars

\* C18: no run leaves the pipeline by an exception.
C18_NeverRaises == \A r \in Runs : ~raised[r]

\* ------------------------------------------------------ _task_exists alone
\* Titles and descriptions to compare.  The second of each pair below differs
\* from the first in its last characters: 11 of 13 in common is a ratio of
\* 85, 16 of 19 a ratio of 84.
Upto(n) == [i \in 1..n |-> i]

CandidateTitles == {<<1, 2, 3>>, <<101, 2, 3>>, Upto(13), Upto(19)}

ExistingTitles ==
    {<< >>, <<1, 2, 3>>, Upto(11) \o <<91, 92>>, Upto(16) \o <<91, 92, 93>>, <<5, 6>>}

Descriptions == {<< >>, <<7, 8>>}

\* A record that resembles no candidate.
OtherRecord == [title |-> <<5, 6>>, description |-> << >>, source_id |-> NoId]

\* n records of that kind, created after the record under test.
Newer(n) == [i \in 1..n |-> OtherRecord]

\* The record under test is the newest, the last of the window of the query,
\* or the first outside it.
Stores ==
    {<<[title |-> t, description |-> d, source_id |-> NoId]>> \o Newer(n) :
        t \in ExistingTitles, d \in Descriptions,
        n \in {0, PageSize - 1, PageSize}}

InitSimilarity ==
    /\ AtRest
    /\ probe \in {[fn |-> "exists",
                   task |-> [title |-> t, description |-> d, source_id |-> 1],
                   st |-> st, query_ok |-> q, done |-> FALSE, out |-> FALSE] :
                     t \in CandidateTitles, d \in Descriptions, st \in Stores,
                     q \in BOOLEAN}

ApplySimilarity ==
    /\ probe.fn = "exists"
    /\ ~probe.done
    /\ probe' = [probe EXCEPT
                   !.done = TRUE,
                   !.out = _task_exists(probe.task, probe.st, probe.query_ok)]
    /\ UNCHANGED <<runVars, ctor>>

NextSimilarity == ApplySimilarity

SpecSimilarity == InitSimilarity /\ [][NextSimilarity]_vars

\* The greater of the two case-insensitive ratios of a candidate and a record.
PairSimilarity(task, existing) ==
    Max(fuzz_ratio(lower(task.title), lower(existing.title)),
        fuzz_ratio(lower(task.description), lower(existing.description)))

\* C20: when the query has answered, the check says duplicate if and only if
\* one of the 20 most recent records has a title or description ratio of at
\* least 85 with the candidate.
C20_DuplicateIffSimilar ==
    (probe.fn = "exists" /\ probe.done /\ probe.query_ok) =>
        (probe.out <=>
            \E k \in 1..Len(probe.st) :
                /\ k > Len(probe.st) - 20
                /\ PairSimilarity(probe.task, probe.st[k]) >= 85)

(***************************************************************************)
(* The identifier of a message record.                                     *)
(***************************************************************************)

\* C21: every message record the parser hands to a run has a non-empty
\* identifier, and the processed set never contains the empty identifier.
\* _parse_email reads the header with a default of '' (line 210) and checks
\* nothing, and process_new_emails adds whatever it got (line 438).
C21_NoEmptyIdentifier ==
    /\ NoId \notin processed_emails
    /\ \A r \in Runs : \A i \in 1..Len(new_emails[r]) :
           MessageId(new_emails[r][i]) # NoId

(***************************************************************************)
(* The Task builder: the accepting branch of extract_tasks_from_email with *)
(* every field of the verdict, and the page create_task_in_notion makes of *)
(* the Task.  A string is a sequence of tokens; an Optional value is << >> *)
(* for None and <<v>> for the value v.                                     *)
(***************************************************************************)

\* TaskPriority.
Priorities == {"low", "medium", "high", "urgent"}

\* The due dates a verdict can carry: None, the empty string, an ISO date,
\* a date in words, and words that are no date.
DueDates ==
    { << >>,
      << << >> >>,
      << <<"2025", "-", "03", "-", "05">> >>,
      << <<"March", " ", "5th">> >>,
      << <<"next", " ", "Friday">> >> }

TagLists == { << >>, <<"website">> }

\* EmailTaskExtractor: every field of the structured output.
FullVerdicts ==
    { [is_task |-> b, confidence |-> c, title |-> t.title,
       description |-> t.description, priority |-> p, due_date |-> d,
       tags |-> g] :
        b \in BOOLEAN, c \in Confidences, t \in Texts, p \in Priorities,
        d \in DueDates, g \in TagLists }

FullReplies ==
    {[error |-> FALSE, verdict |-> v] : v \in FullVerdicts}
        \cup {[error |-> TRUE, verdict |-> CHOOSE v \in FullVerdicts : TRUE]}

\* The numbers the date tokens stand for.
YearOf == [t \in {"2025"} |-> 2025]
MonthOf == [t \in {"03"} |-> 3]
DayOf == [t \in {"05", "5th"} |-> 5]
MonthNames == [t \in {"March"} |-> 3]

\* datetime.strptime(s, '%Y-%m-%d'): <<date>>, or << >> for ValueError.
strptime(s) ==
    IF /\ Len(s) = 5
       /\ s[1] \in DOMAIN YearOf /\ s[2] = "-"
       /\ s[3] \in DOMAIN MonthOf /\ s[4] = "-"
       /\ s[5] \in DOMAIN DayOf
    THEN <<[year |-> YearOf[s[1]], month |-> MonthOf[s[3]], day |-> DayOf[s[5]]]>>
    ELSE << >>

\* dateutil.parser.parse(s): an ISO date, or a month name and a day of the
\* current year (2025 here); a token it does not know is an error, << >>.  The import
\* inside the try can fail as well.
dateutil_parse(s, importable) ==
    IF ~importable THEN << >>
    ELSE IF strptime(s) # << >> THEN strptime(s)
    ELSE IF /\ Len(s) = 3
            /\ s[1] \in DOMAIN MonthNames /\ s[2] = " "
            /\ s[3] \in DOMAIN DayOf
    THEN <<[year |-> 2025, month |-> MonthNames[s[1]], day |-> DayOf[s[3]]]>>
    ELSE << >>

\* `if extracted.due_date`: None and '' are false.
Truthy(d) == d # << >> /\ d[1] # << >>

\* A due-date parse that knows the ISO form only.
ParseDueDateIsoOnly(d, importable) ==
    IF ~Truthy(d) THEN << >> ELSE strptime(d[1])

\* Lines 352-363: the ISO form first, then the free form, None when both
\* raise.
ParseDueDate(d, importable) ==
    IF ~Truthy(d) THEN << >>
    ELSE IF strptime(d[1]) # << >> THEN strptime(d[1])
    ELSE dateutil_parse(d[1], importable)

\* Lines 366-376: the metadata of the Task; raw_due_date is there when the
\* verdict had a due date and no parse gave one.
MetadataOf(m, verdict, due_date) ==
    [sender |-> Sender(m), subject |-> Subject(m),
     confidence |-> verdict.confidence, message_id |-> MessageId(m),
     raw_due_date |-> IF Truthy(verdict.due_date) /\ due_date = << >>
                      THEN verdict.due_date ELSE << >>]

\* A builder that leaves the priority at the default of the Task model.
TaskFromVerdictDefaultPriority(m, verdict, importable) ==
    LET due_date == ParseDueDate(verdict.due_date, importable)
    IN [title |-> verdict.title, description |-> verdict.description,
        priority |-> "medium", status |-> "todo", source |-> "email",
        source_id |-> MessageId(m), due_date |-> due_date,
        tags |-> verdict.tags, metadata |-> MetadataOf(m, verdict, due_date)]

\* Lines 350-392: the Task built of an accepted verdict.
TaskFromVerdict(m, verdict, importable) ==
    LET due_date == ParseDueDate(verdict.due_date, importable)
    IN [title |-> verdict.title, description |-> verdict.description,
        priority |-> verdict.priority, status |-> "todo", source |-> "email",
        source_id |-> MessageId(m), due_date |-> due_date,
        tags |-> verdict.tags, metadata |-> MetadataOf(m, verdict, due_date)]

\* extract_tasks_from_email with the whole verdict: << >> is None, <<t>> the
\* Task t.
extract_full(m, proc, reply, importable) ==
    IF PreFilter(m, proc) # "classify" THEN << >>
    ELSE IF reply.error THEN << >>
    ELSE IF Accepts(reply.verdict)
         THEN <<TaskFromVerdict(m, reply.verdict, importable)>>
    ELSE << >>

\* _priority_to_notion_select: urgent has no option of its own.
_priority_to_notion_select(priority) ==
    CASE priority = "low" -> "Low"
      [] priority = "medium" -> "Medium"
      [] priority = "high" -> "High"
      [] priority = "urgent" -> "High"
      [] OTHER -> "Medium"

\* TaskStatus.
Statuses == {"todo", "in_progress", "done", "cancelled"}

\* A mapping with an option of its own for every status.
_status_to_notion_select_injective(status) ==
    CASE status = "todo" -> "Not started"
      [] status = "in_progress" -> "In progress"
      [] status = "done" -> "Done"
      [] status = "cancelled" -> "Cancelled"
      [] OTHER -> "Not started"

\* _status_to_notion_select: cancelled has no option of its own.
_status_to_notion_select(status) ==
    CASE status = "todo" -> "Not started"
      [] status = "in_progress" -> "In progress"
      [] status = "done" -> "Done"
      [] status = "cancelled" -> "Not started"
      [] OTHER -> "Not started"

\* The page create_task_in_notion sends: its properties and, in the body,
\* the source and the metadata.
PageOf(task) ==
    [title |-> task.title, description |-> task.description,
     Status |-> _status_to_notion_select(task.status),
     Priority |-> _priority_to_notion_select(task.priority),
     due_date |-> task.due_date, source |-> task.source,
     source_id |-> task.metadata.message_id]

\* The destination before the commit: empty, or one record with the first
\* phrasing.
StoresBefore ==
    { << >>,
      << [title |-> <<1, 2, 3>>, description |-> <<7, 8>>,
          Status |-> "Done", Priority |-> "Low", due_date |-> << >>, source |-> "email",
          source_id |-> 3] >> }

InitBuilder ==
    /\ AtRest
    /\ probe \in {[fn |-> "build", m |-> m, reply |-> reply,
                   importable |-> i, st |-> st, stage |-> "new",
                   out |-> << >>, res |-> "none", after |-> st] :
                     m \in Msgs, reply \in FullReplies, i \in BOOLEAN,
                     st \in StoresBefore}

\* The message is unprocessed; the builder runs.
ApplyBuild ==
    /\ probe.fn = "build"
    /\ probe.stage = "new"
    /\ probe' = [probe EXCEPT
                   !.stage = "built",
                   !.out = extract_full(probe.m, {}, probe.reply, probe.importable)]
    /\ UNCHANGED <<runVars, ctor>>

\* The Task goes to create_task_in_notion.
ApplyCreate ==
    /\ probe.fn = "build"
    /\ probe.stage = "built"
    /\ probe.out # << >>
    /\ \E query_ok \in BOOLEAN, create_ok \in BOOLEAN :
         LET task == probe.out[1]
             res == create_task_in_notion(task, probe.st, query_ok, create_ok)
         IN probe' = [probe EXCEPT
                        !.stage = "committed",
                        !.res = res,
                        !.after = IF res = "created"
                                  THEN Append(probe.st, PageOf(task))
                                  ELSE probe.st]
    /\ UNCHANGED <<runVars, ctor>>

NextBuilder == ApplyBuild \/ ApplyCreate

SpecBuilder == InitBuilder /\ [][NextBuilder]_vars

\* The builder ran on a message that is not automated and the model gave a
\* verdict the acceptance test lets through.
AcceptedCase ==
    /\ probe.fn = "build"
    /\ probe.stage # "new"
    /\ ~_is_automated_email(probe.m)
    /\ ~probe.reply.error
    /\ probe.reply.verdict.is_task
    /\ probe.reply.verdict.confidence >= ConfidenceThreshold

\* C22: whatever the due date of an accepted verdict, a Task is built (no
\* exception, no None).  When the due date is a non-empty string, the ISO
\* parse is tried, then the free-form parse: if neither gives a date the
\* Task has no due_date and metadata.raw_due_date is the raw string; if one
\* does, the Task has that date and no raw_due_date.
C22_DueDateNeverRaises ==
    AcceptedCase =>
        /\ Len(probe.out) = 1
        /\ LET raw == probe.reply.verdict.due_date
               task == probe.out[1]
               iso == IF Truthy(raw) THEN strptime(raw[1]) ELSE << >>
               free == IF Truthy(raw)
                       THEN dateutil_parse(raw[1], probe.importable) ELSE << >>
           IN /\ (Truthy(raw) /\ iso = << >> /\ free = << >>) =>
                    (task.due_date = << >> /\ task.metadata.raw_due_date = raw)
              /\ (Truthy(raw) /\ iso # << >>) =>
                    (task.due_date = iso /\ task.metadata.raw_due_date = << >>)
              /\ (Truthy(raw) /\ iso = << >> /\ free # << >>) =>
                    (task.due_date = free /\ task.metadata.raw_due_date = << >>)

\* "next Friday" was the due date of an accepted verdict: the Task has no
\* due_date and keeps the words.
C22_Witness ==
    /\ AcceptedCase
    /\ probe.reply.verdict.due_date = << <<"next", " ", "Friday">> >>
    /\ Len(probe.out) = 1
    /\ probe.out[1].due_date = << >>
    /\ probe.out[1].metadata.raw_due_date = << <<"next", " ", "Friday">> >>

\* C23: an accepted verdict gives exactly one Task, with source "email", the
\* identifier of the message as source_id, and the title, description,
\* priority and tags of the verdict.  When the store accepts that Task (no
\* similar record is found and the create call succeeds) exactly one record
\* is added, and it is the record of that message; otherwise none is.
C23_OneTaskOneRecord ==
    AcceptedCase =>
        /\ Len(probe.out) = 1
        /\ LET task == probe.out[1]
               verdict == probe.reply.verdict
           IN /\ task.source = "email"
              /\ task.source_id = MessageId(probe.m)
              /\ task.title = verdict.title
              /\ task.description = verdict.description
              /\ task.priority = verdict.priority
              /\ task.tags = verdict.tags
              /\ (probe.stage = "committed" /\ probe.res = "created") =>
                     /\ Len(probe.after) = Len(probe.st) + 1
                     /\ \A i \in 1..Len(probe.st) : probe.after[i] = probe.st[i]
                     /\ probe.after[Len(probe.after)].source_id = MessageId(probe.m)
                     /\ probe.after[Len(probe.after)].title = verdict.title
              /\ (probe.stage = "committed" /\ probe.res # "created") =>
                     probe.after = probe.st

\* A verdict with priority high was accepted for message 1, and the store,
\* which held another record, took the Task.
C23_Witness ==
    /\ AcceptedCase
    /\ probe.m = 1
    /\ probe.reply.verdict.priority = "high"
    /\ probe.stage = "committed"
    /\ probe.res = "created"
    /\ probe.st # << >>
    /\ Len(probe.after) = 2
    /\ probe.after[2].source_id = 1
    /\ probe.after[2].Priority = "High"

(***************************************************************************)
(* _is_automated_email on the text of the message.  A text is a set of     *)
(* phrases, each as written: cap says that it has capital letters.         *)
(***************************************************************************)

\* The phrases a sender, a subject and a body are made of here.
SenderPhrases == {"billing@", "alice@"}
SubjectPhrases == {"invoice", "the deck"}
ContentPhrases == {"unsubscribe", "thanks"}

TextsOf(phrases) == SUBSET {[w |-> p, cap |-> c] : p \in phrases, c \in BOOLEAN}

RawMessages ==
    {[sender |-> s, subject |-> j, content |-> c] :
        s \in TextsOf(SenderPhrases), j \in TextsOf(SubjectPhrases),
        c \in TextsOf(ContentPhrases)}

\* str.lower on a text.
lower_text(text) == {[w |-> x.w, cap |-> FALSE] : x \in text}

\* `indicator in text`: the indicators are all written in small letters.
occurs(indicator, text) == [w |-> indicator, cap |-> FALSE] \in text

\* A filter that compares the indicators with the text as written.
is_automated_case_sensitive(msg) ==
    \/ \E indicator \in automated_senders : occurs(indicator, msg.sender)
    \/ \E indicator \in automated_subjects : occurs(indicator, msg.subject)
    \/ \E indicator \in automated_content : occurs(indicator, msg.content)

\* _is_automated_email: the three checks, each on the lower-cased field.
is_automated(msg) ==
    LET sender_lower == lower_text(msg.sender)
        subject_lower == lower_text(msg.subject)
        content_lower == lower_text(msg.content)
    IN IF \E indicator \in automated_senders : occurs(indicator, sender_lower)
       THEN TRUE
       ELSE IF \E indicator \in automated_subjects : occurs(indicator, subject_lower)
       THEN TRUE
       ELSE IF \E indicator \in automated_content : occurs(indicator, content_lower)
       THEN TRUE
       ELSE FALSE

InitFilter ==
    /\ AtRest
    /\ probe \in {[fn |-> "filter", msg |-> msg, done |-> FALSE, out |-> FALSE] :
                    msg \in RawMessages}

ApplyFilter ==
    /\ probe.fn = "filter"
    /\ ~probe.done
    /\ probe' = [probe EXCEPT !.done = TRUE, !.out = is_automated(probe.msg)]
    /\ UNCHANGED <<runVars, ctor>>

NextFilter == ApplyFilter

SpecFilter == InitFilter /\ [][NextFilter]_vars

\* The phrases of a text, whatever their case.
PhrasesIn(text) == {x.w : x \in text}

\* C24: the filter answers true if and only if a sender pattern occurs in
\* the lower-cased sender, or a subject pattern in the lower-cased subject,
\* or a body phrase in the lower-cased body.
C24_AutomatedIffSignal ==
    (probe.fn = "filter" /\ probe.done) =>
        (probe.out <=>
            \/ PhrasesIn(probe.msg.sender) \cap automated_senders # {}
            \/ PhrasesIn(probe.msg.subject) \cap automated_subjects # {}
            \/ PhrasesIn(probe.msg.content) \cap automated_content # {})

\* A message written by a person, with "Invoice" capitalised in its subject
\* and no other signal, was found automated.
C24_Witness ==
    /\ probe.fn = "filter"
    /\ probe.done
    /\ probe.msg.sender = {[w |-> "alice@", cap |-> FALSE]}
    /\ probe.msg.subject = {[w |-> "invoice", cap |-> TRUE]}
    /\ probe.msg.content = {[w |-> "thanks", cap |-> FALSE]}
    /\ probe.out

(***************************************************************************)
(* The pickle and the set in memory.                                       *)
(***************************************************************************)

\* C25: when a run has completed and no run is under way, the pickle on
\* disk holds exactly the processed set in memory.
C25_DiskIsMemory ==
    ((\E r \in Runs : pc[r] = "done") /\ (\A r \in Runs : ~Active(r))) =>
        disk = processed_emails

(***************************************************************************)
(* fetch_new_emails alone.  Every message of the inbox is inside the       *)
(* lookback window of the search.                                          *)
(***************************************************************************)

InitFetch ==
    /\ AtRest
    /\ probe \in {[fn |-> "fetch", len |-> len, lim |-> lim, proc |-> proc,
                   connected |-> c, bad |-> bad, done |-> FALSE, out |-> << >>] :
                     len \in 0..MaxMsgs, lim \in {FastLimit, DefaultLimit},
                     proc \in SUBSET Identifiers, c \in BOOLEAN,
                     bad \in 0..MaxMsgs}

ApplyFetch ==
    /\ probe.fn = "fetch"
    /\ ~probe.done
    /\ probe' = [probe EXCEPT
                   !.done = TRUE,
                   !.out = fetch_new_emails(probe.len, probe.lim, probe.proc,
                                            probe.connected, probe.bad)]
    /\ UNCHANGED <<runVars, ctor>>

NextFetch == ApplyFetch

SpecFetch == InitFetch /\ [][NextFetch]_vars

\* C26: a fetch that reached the mailbox and parsed message m returns m when
\* the identifier of m is not in the processed set, however many newer
\* messages the inbox holds.
C26_UnmarkedIsFetched ==
    (probe.fn = "fetch" /\ probe.done /\ probe.connected) =>
        \A m \in 1..probe.len :
            (m # probe.bad /\ MessageId(m) \notin probe.proc) =>
                \E i \in 1..Len(probe.out) : probe.out[i] = m

(***************************************************************************)
(* A run whose fetch gave nothing.                                         *)
(***************************************************************************)

\* C27: the step in which a run's fetch yields no unprocessed message ends
\* the run and changes neither the processed set, the pickle, the stats,
\* the store nor the gate; the run has made no classification call and no
\* store call and holds no Lock, and it takes no step afterwards.
C27_EmptyFetchEndsRun ==
    [][\A r \in Runs :
          /\ (pc[r] = "fetching" /\ pc'[r] # "fetching" /\ new_emails'[r] = << >>) =>
                (/\ pc'[r] = "done"
                 /\ UNCHANGED <<processed_emails, disk, stats, store,
                                processing_lock, locks>>
                 /\ disp'[r] = << >>
                 /\ tasks'[r] = << >>
                 /\ page_ids'[r] = << >>
                 /\ lockRef'[r] = None
                 /\ markedBy'[r] = {})
          /\ (pc[r] = "done" /\ new_emails[r] = << >>) =>
                (/\ pc'[r] = "done"
                 /\ disp'[r] = << >>
                 /\ page_ids'[r] = << >>
                 /\ lockRef'[r] = None
                 /\ markedBy'[r] = {})]_vars

\* A run found every message of its window processed already and ended
\* with the set, the pickle and the stats as another run had left them.
C27_Witness ==
    \E r \in Runs :
        /\ pc[r] = "done"
        /\ fetchInbox[r] > 0
        /\ new_emails[r] = << >>
        /\ disp[r] = << >>
        /\ processed_emails # {}

(***************************************************************************)
(* Two similar tasks in one batch.                                         *)
(***************************************************************************)

\* C28: of two tasks of one batch, the later of which is similar to the
\* earlier (similarity at least the threshold), at most one is created: the
\* earlier is created and queried before the create call for the later.
C28_SimilarInBatchOnce ==
    \A r \in Runs :
        \A i, j \in 1..Len(outcome[r]) :
            (i < j /\ Similar(tasks[r][j], tasks[r][i])) =>
                ~(outcome[r][i] = "created" /\ outcome[r][j] = "created")

(***************************************************************************)
(* One message at a time.                                                  *)
(***************************************************************************)

\* C29: within a run the messages are handled one at a time.  While the run
\* is at message k (before or in its classification call) exactly the
\* messages before k have a disposition, so the call in flight is the only
\* one of the run; and a call starts only when every earlier message of the
\* run has its disposition.
C29_OneCallAtATime ==
    /\ [](\A r \in Runs :
            pc[r] \in {"classify", "awaiting"} =>
                /\ idx[r] \in 1..Len(new_emails[r])
                /\ Len(disp[r]) = idx[r] - 1)
    /\ [][\A r \in Runs :
            (pc[r] # "awaiting" /\ pc'[r] = "awaiting") =>
                (Len(disp[r]) = idx[r] - 1 /\ idx'[r] = idx[r])]_vars

\* The call for the second message of a run is in flight, after the call
\* for the first had returned a verdict.
C29_Witness ==
    \E r \in Runs :
        /\ pc[r] = "awaiting"
        /\ idx[r] = 2
        /\ Len(disp[r]) = 1
        /\ disp[r][1] \in {"accepted", "rejected"}

(***************************************************************************)
(* validate_database_setup alone.  A schema gives each property name its   *)
(* type, or "absent" when the database has no such property.               *)
(***************************************************************************)

required_properties ==
    [prop_name \in {"Task name", "Status", "Priority", "Description"} |->
        CASE prop_name = "Task name" -> "title"
          [] prop_name = "Status" -> "status"
          [] prop_name = "Priority" -> "select"
          [] prop_name = "Description" -> "rich_text"]

PropertyTypes == {"title", "status", "select", "rich_text"}

Schemas == [DOMAIN required_properties -> PropertyTypes \cup {"absent"}]

\* databases.retrieve answers, or raises APIResponseError, or raises
\* something else (a timeout, a connection error).
Retrievals == {"ok", "api_error", "other_error"}

\* get_database_schema: the properties; {} after an APIResponseError; any
\* other exception goes up to the caller.
get_database_schema(retrieval, properties) ==
    CASE retrieval = "ok" -> [raised |-> FALSE, schema |-> properties]
      [] retrieval = "api_error" ->
            [raised |-> FALSE,
             schema |-> [p \in DOMAIN required_properties |-> "absent"]]
      [] OTHER ->
            [raised |-> TRUE,
             schema |-> [p \in DOMAIN required_properties |-> "absent"]]

\* A validation that looks at the names only.
validate_names_only(retrieval, properties) ==
    LET got == get_database_schema(retrieval, properties)
    IN IF got.raised THEN FALSE
       ELSE \A prop_name \in DOMAIN required_properties :
                got.schema[prop_name] # "absent"

\* validate_database_setup: False at the first required property that is
\* missing or has another type, and False when anything raised.
validate_database_setup(retrieval, properties) ==
    LET got == get_database_schema(retrieval, properties)
    IN IF got.raised THEN FALSE
       ELSE \A prop_name \in DOMAIN required_properties :
                /\ got.schema[prop_name] # "absent"
                /\ got.schema[prop_name] = required_properties[prop_name]

InitValidate ==
    /\ AtRest
    /\ probe \in {[fn |-> "validate", retrieval |-> t, properties |-> s,
                   done |-> FALSE, out |-> FALSE] :
                    t \in Retrievals, s \in Schemas}

ApplyValidate ==
    /\ probe.fn = "validate"
    /\ ~probe.done
    /\ probe' = [probe EXCEPT
                   !.done = TRUE,
                   !.out = validate_database_setup(probe.retrieval, probe.properties)]
    /\ UNCHANGED <<runVars, ctor>>

NextValidate == ApplyValidate

SpecValidate == InitValidate /\ [][NextValidate]_vars

\* C30: the validation answers True if and only if the schema was
\* retrieved and has Task name of type title, Status of type status,
\* Priority of type select and Description of type rich_text; when the
\* retrieval fails the answer is False (a Boolean in every case).
C30_ValidIffSchemaFits ==
    (probe.fn = "validate" /\ probe.done) =>
        /\ probe.out \in BOOLEAN
        /\ probe.out <=>
              (/\ probe.retrieval = "ok"
               /\ probe.properties["Task name"] = "title"
               /\ probe.properties["Status"] = "status"
               /\ probe.properties["Priority"] = "select"
               /\ probe.properties["Description"] = "rich_text")
        /\ probe.retrieval # "ok" => probe.out = FALSE

\* A database whose Status property is a select was refused.
C30_Witness ==
    /\ probe.fn = "validate"
    /\ probe.done
    /\ probe.retrieval = "ok"
    /\ probe.properties = [required_properties EXCEPT !["Status"] = "select"]
    /\ probe.out = FALSE

(***************************************************************************)
(* create_task_in_notion alone: the duplicate check and the create call.   *)
(***************************************************************************)

InitCreate ==
    /\ AtRest
    /\ probe \in {[fn |-> "create",
                   task |-> [title |-> t, description |-> d, source_id |-> 1],
                   st |-> st, query_ok |-> q, create_ok |-> c,
                   done |-> FALSE, exists |-> FALSE, res |-> "none"] :
                     t \in CandidateTitles, d \in Descriptions, st \in Stores,
                     q \in BOOLEAN, c \in BOOLEAN}

ApplyCreateTask ==
    /\ probe.fn = "create"
    /\ ~probe.done
    /\ probe' = [probe EXCEPT
                   !.done = TRUE,
                   !.exists = _task_exists(probe.task, probe.st, probe.query_ok),
                   !.res = create_task_in_notion(probe.task, probe.st,
                                                 probe.query_ok, probe.create_ok)]
    /\ UNCHANGED <<runVars, ctor>>

NextCreate == ApplyCreateTask

SpecCreate == InitCreate /\ [][NextCreate]_vars

\* C31: when the query of the similarity check raises, the check answers
\* 'no duplicate' and the create call is made: the result is that of the
\* create call alone (created, or its own error), never 'duplicate'.
C31_CheckFailsOpen ==
    (probe.fn = "create" /\ probe.done /\ ~probe.query_ok) =>
        /\ probe.exists = FALSE
        /\ probe.res = IF probe.create_ok THEN "created" ELSE "error"

\* The query raised while the store held a record with the candidate's very
\* title, and the candidate was created.
C31_Witness ==
    /\ probe.fn = "create"
    /\ probe.done
    /\ ~probe.query_ok
    /\ probe.task.title = <<1, 2, 3>>
    /\ probe.st = <<[title |-> <<1, 2, 3>>, description |-> << >>, source_id |-> NoId]>>
    /\ probe.res = "created"

(***************************************************************************)
(* Leaving the commit gate.                                                *)
(***************************************************************************)

\* C32: the gate does not stay held by a run that has ended, and a run that
\* came to the gate with Tasks does not end without having committed them:
\* it gets the gate, at once or after waiting, and batch_create_tasks gives
\* a result for each of its Tasks.
C32_GateReleasedAndPassed ==
    /\ (\A r \in Runs : ~Active(r)) =>
           \A l \in Runs : ~locks[l].locked
    /\ \A r \in Runs :
           (pc[r] = "done" /\ tasks[r] # << >>) =>
               Len(page_ids[r]) = Len(tasks[r])

(***************************************************************************)
(* The management operations of the API beside the runs: clear-data and    *)
(* models/switch.  One run is looked at; the management state is kept in   *)
(* probe.  An agent is known by the model it was built with.               *)
(***************************************************************************)

Models == {"google-gla:gemini-2.0-flash-lite", "openai:gpt-4o"}

\* _load_processed_emails: the pickle, or an empty set when it cannot be
\* read.
_load_processed_emails(file, readable) == IF readable THEN file ELSE {}

InitManage ==
    /\ AtRest
    /\ probe = [fn |-> "manage",
                model |-> "google-gla:gemini-2.0-flash-lite",
                email_agent |-> "google-gla:gemini-2.0-flash-lite",
                notion_agent |-> "google-gla:gemini-2.0-flash-lite",
                op |-> "none", failed |-> FALSE,
                old_model |-> "google-gla:gemini-2.0-flash-lite",
                new_model |-> "google-gla:gemini-2.0-flash-lite",
                tick |-> FALSE]

\* No run is under way.
Quiet == \A r \in Runs : ~Active(r)

\* POST /api/management/clear-data: clear_processed_emails empties the set
\* and saves it, then three counters are reset.  how: the save worked, the
\* write failed (logged only), or mkdir raised (the endpoint answers with a
\* failure and resets nothing).
clear_processed_data ==
    /\ probe.fn = "manage"
    /\ \E how \in {"saved", "write_failed", "mkdir_raised"} :
         /\ processed_emails' = {}
         /\ disk' = _save_processed_emails(disk, {}, how = "saved")
         /\ stats' = IF how = "mkdir_raised" THEN stats
                     ELSE [k \in DOMAIN stats \cup {"tasks_processed"} |->
                             IF k \in {"emails_processed", "tasks_processed", "errors"}
                             THEN 0 ELSE stats[k]]
         /\ probe' = [probe EXCEPT !.op = "clear",
                                   !.failed = (how = "mkdir_raised"),
                                   !.tick = ~@]
    /\ UNCHANGED <<inboxLen, store, processing_lock, locks,
                   pc, trigger, limit, new_emails, idx, tasks, page_ids, lockRef,
                   disp, outcome, markedBy, raised, prev, fetchInbox, procBefore>>
    /\ UNCHANGED ctor

\* What switch_model leaves behind.  how: the new NotionAgent cannot be
\* built (its constructor retrieves the database and re-raises), the schema
\* validation fails and the old agents are rebuilt, the validation fails and
\* the old NotionAgent cannot be rebuilt, or all goes well.
SwitchOutcomes == {"notion_raises", "invalid", "invalid_rollback_raises", "switched"}

switch_model(p, new_model, how) ==
    CASE how = "notion_raises" ->
            [p EXCEPT !.model = new_model, !.email_agent = new_model]
      [] how = "invalid" ->
            [p EXCEPT !.model = p.model, !.email_agent = p.model,
                      !.notion_agent = p.model]
      [] how = "invalid_rollback_raises" ->
            [p EXCEPT !.model = p.model, !.email_agent = p.model,
                      !.notion_agent = new_model]
      [] OTHER ->
            [p EXCEPT !.model = new_model, !.email_agent = new_model,
                      !.notion_agent = new_model]

\* POST /api/models/switch.  Every EmailAgent that is built loads the pickle
\* anew.
SwitchModel ==
    /\ probe.fn = "manage"
    /\ Quiet
    /\ \E new_model \in Models \ {probe.model}, how \in SwitchOutcomes,
          readable \in BOOLEAN :
         /\ probe' = [switch_model(probe, new_model, how) EXCEPT
                         !.op = "switch",
                         !.failed = (how # "switched"),
                         !.old_model = probe.model,
                         !.new_model = new_model,
                         !.tick = ~@]
         /\ processed_emails' = _load_processed_emails(disk, readable)
    /\ UNCHANGED <<inboxLen, disk, store, processing_lock, locks, stats,
                   pc, trigger, limit, new_emails, idx, tasks, page_ids, lockRef,
                   disp, outcome, markedBy, raised, prev, fetchInbox, procBefore>>
    /\ UNCHANGED ctor

\* The run beside which the management operations are looked at.
TheRun == 1

NextManage ==
    \/ clear_processed_data
    \/ SwitchModel
    \/ Arrive
    \/ \E trig \in {"scheduled", "manual", "push"} : StartRun(TheRun, trig)
    \/ Fetch(TheRun)
    \/ ClassifyStart(TheRun)
    \/ ClassifyReturn(TheRun)
    \/ GetLock(TheRun)
    \/ CreateLock(TheRun)
    \/ Acquire(TheRun)
    \/ CommitItem(TheRun)
    \/ Finalize(TheRun)

SpecManage == InitManage /\ [][NextManage]_vars

\* The step is a call of clear-data.
ClearStep == probe'.tick # probe.tick /\ probe'.op = "clear"

\* C33: the processed set loses an identifier only in a step of
\* clear-data, and such a step leaves both the set and the pickle empty.
C33_OnlyClearRemoves ==
    [][/\ ~(processed_emails \subseteq processed_emails') => ClearStep
       /\ ClearStep => (processed_emails' = {} /\ disk' = {})]_vars

\* C35: after a switch_model that failed, the orchestrator's model and both
\* agents are those of the model in use before the call; after one that
\* succeeded all three are of the new model.
C35_SwitchAllOrNothing ==
    (probe.fn = "manage" /\ probe.op = "switch") =>
        /\ probe.failed =>
              (/\ probe.model = probe.old_model
               /\ probe.email_agent = probe.old_model
               /\ probe.notion_agent = probe.old_model)
        /\ ~probe.failed =>
              (/\ probe.model = probe.new_model
               /\ probe.email_agent = probe.new_model
               /\ probe.notion_agent = probe.new_model)

AnyTasks ==
    {[title |-> t.title, description |-> t.description, priority |-> p,
      status |-> s, source |-> "email", source_id |-> 1, due_date |-> d,
      tags |-> g, metadata |-> [message_id |-> 1]] :
        t \in Texts, p \in Priorities, s \in Statuses,
        d \in {<< >>, <<[year |-> 2025, month |-> 3, day |-> 5]>>},
        g \in TagLists}

InitPage ==
    /\ AtRest
    /\ probe \in {[fn |-> "page", task |-> task, done |-> FALSE,
                   out |-> PageOf(CHOOSE t \in AnyTasks : TRUE)] :
                    task \in AnyTasks}

ApplyPage ==
    /\ probe.fn = "page"
    /\ ~probe.done
    /\ probe' = [probe EXCEPT !.done = TRUE, !.out = PageOf(probe.task)]
    /\ UNCHANGED <<runVars, ctor>>

NextPage == ApplyPage

SpecPage == InitPage /\ [][NextPage]_vars

\* C37: the Status of the page is "Not started" for todo, "In progress" for
\* in_progress, "Done" for done, and for cancelled what it is for todo: two
\* statuses share one destination value.
C37_StatusMapping ==
    (probe.fn = "page" /\ probe.done) =>
        /\ probe.task.status = "todo" => probe.out.Status = "Not started"
        /\ probe.task.status = "in_progress" => probe.out.Status = "In progress"
        /\ probe.task.status = "done" => probe.out.Status = "Done"
        /\ probe.task.status = "cancelled" =>
               probe.out.Status = PageOf([probe.task EXCEPT !.status = "todo"]).Status

\* A cancelled Task got the page status of a Task to do.
C37_Witness ==
    /\ probe.fn = "page"
    /\ probe.done
    /\ probe.task.status = "cancelled"
    /\ probe.out.Status = "Not started"

(***************************************************************************)
(* RealTimeEmailProcessor: start_idle_monitoring, stop_idle_monitoring and *)
(* the monitor threads.  start is called by the thread of                  *)
(* _start_realtime_delayed (once) and by the API; stop by the API.  The    *)
(* state is kept in probe: thread 0 is None.                               *)
(***************************************************************************)

Threads == 1..MaxThreads

Callers == {"delayed", "api"}

InitIdle ==
    /\ AtRest
    /\ probe = [fn |-> "idle", idle_running |-> FALSE, idle_thread |-> 0,
                monitor |-> [t \in Threads |-> "unborn"],
                at |-> [c \in Callers |-> "out"],
                op |-> "none", timed_out |-> FALSE]

\* idle_thread.is_alive()
is_alive(p) == p.idle_thread # 0 /\ p.monitor[p.idle_thread] = "alive"

\* start_idle_monitoring, its test: a live thread makes the call return.
StartCheck(c) ==
    /\ probe.fn = "idle"
    /\ probe.at[c] = "out"
    /\ probe' = IF is_alive(probe)
                THEN [probe EXCEPT !.at[c] = IF c = "delayed" THEN "gone" ELSE "out",
                                   !.op = "start", !.timed_out = FALSE]
                ELSE [probe EXCEPT !.at[c] = "start_create"]
    /\ UNCHANGED <<runVars, ctor>>

\* start_idle_monitoring, the rest: the flag is set, a thread is created and
\* started, the call returns.
StartCreate(c) ==
    /\ probe.fn = "idle"
    /\ probe.at[c] = "start_create"
    /\ \E t \in Threads :
         /\ probe.monitor[t] = "unborn"
         /\ \A u \in Threads : u < t => probe.monitor[u] # "unborn"
         /\ probe' = [probe EXCEPT !.idle_running = TRUE,
                                   !.idle_thread = t,
                                   !.monitor[t] = "alive",
                                   !.at[c] = IF c = "delayed" THEN "gone" ELSE "out",
                                   !.op = "start", !.timed_out = FALSE]
    /\ UNCHANGED <<runVars, ctor>>

\* stop_idle_monitoring up to its join.
StopFlag ==
    /\ probe.fn = "idle"
    /\ probe.at["api"] = "out"
    /\ probe' = IF probe.idle_thread # 0
                THEN [probe EXCEPT !.idle_running = FALSE, !.at["api"] = "stop_join"]
                ELSE [probe EXCEPT !.idle_running = FALSE, !.op = "stop",
                                   !.timed_out = FALSE]
    /\ UNCHANGED <<runVars, ctor>>

\* join(timeout=10) returns: the thread has ended, or ten seconds are over
\* and it has not (it sits in idle_check for up to a minute, or sleeps 30 s).
StopJoin ==
    /\ probe.fn = "idle"
    /\ probe.at["api"] = "stop_join"
    /\ probe' = [probe EXCEPT !.at["api"] = "out", !.op = "stop",
                              !.timed_out = is_alive(probe)]
    /\ UNCHANGED <<runVars, ctor>>

\* _idle_monitor_loop: the thread comes to `while self.idle_running`, finds
\* the flag down and ends.
MonitorExit(t) ==
    /\ probe.fn = "idle"
    /\ probe.monitor[t] = "alive"
    /\ ~probe.idle_running
    /\ probe' = [probe EXCEPT !.monitor[t] = "ended"]
    /\ UNCHANGED <<runVars, ctor>>

NextIdle ==
    \/ \E c \in Callers : StartCheck(c)
    \/ \E c \in Callers : StartCreate(c)
    \/ StopFlag
    \/ StopJoin
    \/ \E t \in Threads : MonitorExit(t)

SpecIdle == InitIdle /\ [][NextIdle]_vars

\* The step is the return of a call of start_idle_monitoring by caller c.
StartReturns(c) ==
    \/ probe.at[c] = "out" /\ is_alive(probe) /\ probe'.at[c] \in {"out", "gone"}
          /\ probe'.op = "start" /\ probe'.idle_running = probe.idle_running
          /\ probe'.monitor = probe.monitor
    \/ probe.at[c] = "start_create" /\ probe'.at[c] \in {"out", "gone"}

\* C34: no two monitor threads are alive at a time, and when a call of
\* start_idle_monitoring returns the flag idle_running is up and the thread
\* of idle_thread is alive.
C34_OneMonitorActiveAfterStart ==
    /\ [](probe.fn = "idle" =>
            Cardinality({t \in Threads : probe.monitor[t] = "alive"}) <= 1)
    /\ [][\A c \in Callers :
            (probe.fn = "idle" /\ StartReturns(c)) =>
                (probe'.idle_running /\ is_alive(probe'))]_vars
====
